---- MODULE Spec2Model ----
\* Model of migrate_server.py: one run of main() (and a re-run) against a
\* source ("old") and a destination ("new") Matrix server.  The program is
\* sequential; every await is one step whose answer the server chooses.
EXTENDS Integers, Sequences, FiniteSets, TLC

\* ----------------------------------------------------------------- bounds
NumRooms == 2      \* most rooms joined on the source server
MaxHist == 4       \* longest history of the room of a one-room source server
PageLimit == 2     \* most events in one page (stands for limit=1000)

\* The first run of the program and its re-run.
Runs == {1, 2}

Names == {"a", "b"}
Mimes == {"image/png"}
Filenames == {"pic.png"}
Bodies == {<<>>, <<"x", "y">>}

\* A password or a token of the configuration: empty (the default of the
\* Server dataclass) or not.
Secrets == {<<>>, <<"s">>}

\* ------------------------------------------------- nio event classes
\* The concrete classes of the events a page can hold.  RoomMessageNotice
\* stands for the formatted messages that are not text (notice, emote);
\* RoomMemberEvent stands for every event that is no message at all.
Kinds == {"RoomMessageText", "RoomMessageNotice", "RoomMessageMedia",
          "RoomEncryptedMedia", "RedactedEvent", "RoomMemberEvent"}

\* The classes an event of concrete class k is an instance of.
ClassesOf(k) ==
    CASE k = "RoomMessageText" -> {"RoomMessageText", "RoomMessageFormatted"}
      [] k = "RoomMessageNotice" -> {"RoomMessageNotice",
                                     "RoomMessageFormatted"}
      [] OTHER -> {k}

isinstance(k, classes) == ClassesOf(k) \cap classes # {}

\* event.source['content']['msgtype'] of a message event.
msgtype(k) ==
    CASE k = "RoomMessageText" -> "m.text"
      [] k = "RoomMessageNotice" -> "m.notice"
      [] k = "RoomMessageMedia" -> "m.image"
      [] k = "RoomEncryptedMedia" -> "m.file"
      [] OTHER -> "none"

\* ------------------------------------------------------ sequence helpers
RECURSIVE reverse(_)
reverse(s) == IF s = <<>> THEN <<>> ELSE Append(reverse(Tail(s)), Head(s))

RECURSIVE SelectEvents(_, _)
SelectEvents(s, classes) ==
    IF s = <<>> THEN <<>>
    ELSE IF isinstance(Head(s).kind, classes)
         THEN <<Head(s)>> \o SelectEvents(Tail(s), classes)
         ELSE SelectEvents(Tail(s), classes)

SeqsUpTo(S, n) == UNION {[1..m -> S] : m \in 0..n}

Range(s) == {s[i] : i \in 1..Len(s)}

\* ---------------------------------------------------------------- state
VARIABLES
    src,          \* source server: room id -> [display_name, history]
    dst,          \* destination server: room id -> display name
    run,          \* number of the current run of the program
    pc,           \* where main() is
    rooms,        \* self.rooms of old and new: room ids, in dict order
    room_names,   \* self.room_names of old and new
    cur,          \* position of the loop of main in old.rooms
    start_token,  \* get_room_events: the anchor
    token,        \* fetch_room_events: start_token of the next request
    direction,    \* fetch_room_events: "back" or "front"
    events,       \* fetch_room_events: events gathered in this direction
    back_events,  \* get_room_events: the reversed backward run
    pages,        \* get_room_events: non-empty pages fetched, per direction,
                  \* and the events they held
    timeline,     \* main: events returned by get_room_events
    new_room,     \* main: the destination room (0 is None)
    pos,          \* send_events: position in the timeline
    media,        \* post_event: the download response
    content,      \* post_event: the content of the message
    fault,        \* the last failure a server answered with
    creates,      \* room_create requests issued, over all runs
    downloads,    \* download requests answered in this run
    uploads,      \* upload requests issued in this run
    sends,        \* room_send requests issued in this run
    device_cnt,   \* Matrix_Server.device_cnt: of the class and of instances
    device,       \* self.device of the sessions constructed
    creds,        \* Config: password and token of the two servers
    logins,       \* authentication attempts of this run
    di_used,      \* main: size of old.rooms when the loop began iterating it
    logouts       \* the servers a logout request was sent to in this run

servers == <<src, dst, run>>
catalog == <<rooms, room_names>>
fetching == <<start_token, token, direction, events, back_events, pages>>
posting == <<media, content>>
requests == <<creates, downloads, uploads, sends>>
identity == <<device_cnt, device, creds, logins, di_used>>
sessions == <<identity, logouts>>

vars == <<servers, pc, catalog, cur, fetching, timeline, new_room, pos,
          posting, fault, requests, sessions>>

NoMedia == [ok |-> FALSE]
NoContent == [body |-> "none"]
NoPages == [back |-> 0, front |-> 0, seen |-> 0]

\* device_cnt: int = 1 in the body of class Matrix_Server.
DeviceCntStart == 1

\* The class attribute alone: no instance has a device_cnt of its own.
ClassAttrs == ("class" :> DeviceCntStart)

\* No session constructed yet.
NoSessions == [s \in {} |-> 0]

\* The credentials a Config can hold for the two servers.
Credentials == [{"old", "new"} -> [password : Secrets, token : Secrets]]

\* A configuration that gives a password and a token for each server.
BothGiven ==
    [s \in {"old", "new"} |-> [password |-> <<"s">>, token |-> <<"s">>]]

\* The variables of one process, as they are when main() starts.
ProcessStart ==
    /\ pc = "login_old"
    /\ rooms = [s \in {"old", "new"} |-> <<>>]
    /\ room_names = [s \in {"old", "new"} |-> <<>>]
    /\ cur = 1
    /\ start_token = 0
    /\ token = 0
    /\ direction = "back"
    /\ events = <<>>
    /\ back_events = <<>>
    /\ pages = NoPages
    /\ timeline = <<>>
    /\ new_room = 0
    /\ pos = 1
    /\ media = NoMedia
    /\ content = NoContent
    /\ fault = "none"
    /\ downloads = <<>>
    /\ uploads = <<>>
    /\ sends = <<>>
    /\ device_cnt = ClassAttrs
    /\ device = NoSessions
    /\ logins = <<>>
    /\ di_used = 0
    /\ logouts = {}

\* The histories the rooms of a source server with several rooms are drawn
\* from: nothing retained, retained but never posted, posted.
RoomHistories ==
    {<<"RoomMemberEvent">>, <<"RedactedEvent">>,
     <<"RoomMessageText", "RoomMessageText">>, <<"RoomEncryptedMedia">>}

\* The histories of the room of a one-room source server: any events, one
\* fewer than MaxHist at most, or MaxHist events at most that are text
\* (retained and posted) or membership events (not retained).
LongHistories ==
    SeqsUpTo(Kinds, MaxHist - 1)
        \cup SeqsUpTo({"RoomMessageText", "RoomMemberEvent"}, MaxHist)

\* Up to NumRooms source rooms, their names free, and a destination server
\* that may already hold a room.
Init ==
    /\ \E n \in 1..NumRooms :
         src \in [1..n -> [display_name : Names, history : RoomHistories]]
    /\ dst \in SeqsUpTo({"a"}, 1)
    /\ run = 1
    /\ creates = <<>>
    /\ creds = BothGiven
    /\ ProcessStart

\* One source room and an empty destination server.
InitOnce ==
    /\ src \in [1..1 -> [display_name : {"a"}, history : LongHistories]]
    /\ dst = <<>>
    /\ run = 1
    /\ creates = <<>>
    /\ creds = BothGiven
    /\ ProcessStart

\* -------------------------------------------------------- the two servers
\* The room the loop of main is at.
CurRoom == rooms["old"][cur]

\* The event at position i of the history of source room r.
EventAt(r, i) == [idx |-> i, kind |-> src[r].history[i]]

\* The source server's answer to room_messages(room r, tok, limit, dir) when
\* it returns n events at most: the chunk, nearest to the token first, and
\* the end token.  A token is the number of events before that position.
RoomMessagesChunk(r, tok, dir, n) ==
    IF dir = "back"
    THEN [i \in 1..(IF n < tok THEN n ELSE tok) |-> EventAt(r, tok - i + 1)]
    ELSE LET left == Len(src[r].history) - tok
         IN [i \in 1..(IF n < left THEN n ELSE left) |-> EventAt(r, tok + i)]

RoomMessagesEnd(r, tok, dir, n) ==
    IF dir = "back"
    THEN tok - Len(RoomMessagesChunk(r, tok, dir, n))
    ELSE tok + Len(RoomMessagesChunk(r, tok, dir, n))

\* rooms[room].display_name for every room id of the server the session is
\* logged into.
DisplayNames(s) ==
    IF s = "old" THEN [i \in 1..Len(src) |-> src[i].display_name] ELSE dst

\* client.rooms after a sync: every room of the server, in the order joined.
ClientRooms(s) == [i \in 1..Len(DisplayNames(s)) |-> i]

\* --------------------------------------------------------- Matrix_Server
get_room_names(s) == Range(room_names[s])

\* get_room: the first room of the catalog carrying the name; 0 is None.
get_room_in(names, ids, display, display_name) ==
    LET hits == {i \in 1..Len(ids) : display[ids[i]] = display_name}
    IN IF display_name \in Range(names) /\ hits # {}
       THEN ids[CHOOSE i \in hits : \A j \in hits : i <= j]
       ELSE 0

get_room(s, display_name) ==
    get_room_in(room_names[s], rooms[s], DisplayNames(s), display_name)

\* The classes fetch_room_events keeps and the classes send_events posts.
RetainedClasses == {"RoomMessageFormatted", "RedactedEvent",
                    "RoomMessageMedia", "RoomEncryptedMedia"}

PostedClasses == {"RoomMessageText", "RoomMessageMedia", "RoomEncryptedMedia"}

MediaClasses == {"RoomMessageMedia", "RoomEncryptedMedia"}

\* The page added whole, with no filter.
ExtendEventsUnfiltered(evs, chunk) == evs \o chunk

\* fetch_room_events: what one page adds to the events gathered so far.
ExtendEvents(evs, chunk) == evs \o SelectEvents(chunk, RetainedClasses)

\* The backward run left newest-first.
BackRunUnreversed(evs) == evs

\* get_room_events: the backward run put in oldest-first order.
BackRun(evs) == reverse(evs)

\* The two runs joined the wrong way round.
MergeRunsSwapped(back, front) == front \o back

\* get_room_events: the merged timeline.
MergeRuns(back, front) == back \o front

\* The message printed and logged, and the caller carried on.
sys_exit_returns(exit, after) == after

\* sys_exit(msg, exit): where the program is after the call, at sys.exit(-1)
\* when exit is true (the default) and at the caller's next step otherwise.
sys_exit(exit, after) == IF exit THEN "exit" ELSE after

\* The process ends, by sys.exit (p = "exit") or by an exception nothing
\* catches (p = "crash"), after the failure f; the locals of the calls under
\* way are gone.
Halt(p, f) ==
    /\ pc' = p
    /\ fault' = f
    /\ start_token' = 0
    /\ token' = 0
    /\ direction' = "back"
    /\ events' = <<>>
    /\ back_events' = <<>>
    /\ pages' = NoPages
    /\ timeline' = <<>>
    /\ new_room' = 0
    /\ pos' = 1
    /\ media' = NoMedia
    /\ content' = NoContent
    /\ UNCHANGED <<cur, catalog>>

\* self.device_cnt as Python reads it: the attribute of the instance when it
\* has one, the attribute of the class otherwise.
ReadDeviceCnt(s) ==
    IF s \in DOMAIN device_cnt THEN device_cnt[s] ELSE device_cnt["class"]

\* __init__: the device identifier (the number behind migrate_server_) and
\* self.device_cnt += 1, which reads through the instance and assigns to the
\* instance.
Construct(s) ==
    /\ device' = (s :> ReadDeviceCnt(s)) @@ device
    /\ device_cnt' = (s :> ReadDeviceCnt(s) + 1) @@ device_cnt

\* The token tried first.
AuthMethodTokenFirst(server) ==
    IF Len(server.token) > 0 THEN "token" ELSE "password"

\* login: the credential handed to client.login.
AuthMethod(server) ==
    IF Len(server.password) > 0 THEN "password" ELSE "token"

\* main constructing a session and calling login on it: authenticate, then
\* sync and load the room catalog.  A login error is fatal; a sync error
\* makes sync() call the logging module: TypeError.
Login(s) ==
    /\ pc = (IF s = "old" THEN "login_old" ELSE "login_new")
    /\ Construct(s)
    /\ logins' = Append(logins, [server |-> s, auth |-> AuthMethod(creds[s])])
    /\ UNCHANGED <<creds, di_used, logouts>>
    /\ \/ Halt(sys_exit(TRUE, pc), "LoginError")
       \/ Halt("crash", "SyncError")
       \/ /\ rooms' = [rooms EXCEPT ![s] = ClientRooms(s)]
          /\ room_names' = [room_names EXCEPT ![s] =
                 room_names[s] \o [i \in 1..Len(ClientRooms(s)) |->
                                     DisplayNames(s)[ClientRooms(s)[i]]]]
          /\ pc' = IF s = "old" THEN "login_new" ELSE "iter"
          /\ UNCHANGED <<cur, fetching, timeline, new_room, pos, posting,
                         fault>>
    /\ UNCHANGED <<servers, requests>>

\* main: for room in old.rooms creates the iterator of the dict, which
\* remembers the size of the dict.
StartLoop ==
    /\ pc = "iter"
    /\ di_used' = Len(rooms["old"])
    /\ pc' = "loop"
    /\ UNCHANGED <<device_cnt, device, creds, logins, logouts, servers,
                   catalog, cur,
                   fetching, timeline, new_room, pos, posting, fault,
                   requests>>

\* main: the head of the loop over old.rooms.  The iterator of a dict whose
\* size has changed since the loop began raises RuntimeError.
NextRoom ==
    /\ pc = "loop"
    /\ IF Len(rooms["old"]) # di_used
       THEN Halt("crash", "RuntimeError")
       ELSE /\ pc' = IF cur <= Len(rooms["old"]) THEN "sync" ELSE "logout"
            /\ UNCHANGED <<catalog, cur, fetching, timeline, new_room, pos,
                           posting, fault>>
    /\ UNCHANGED <<sessions, servers, requests>>

\* get_room_events: its own client.sync, which yields the anchor
\* (prev_batch) and brings client.rooms up to date; self.rooms is that same
\* dict (login: self.rooms = self.client.rooms).  A sync error has no rooms:
\* AttributeError.
GetAnchor ==
    /\ pc = "sync"
    /\ \/ Halt("crash", "AnchorSyncError")
       \/ /\ \E a \in 0..Len(src[CurRoom].history) :
                /\ start_token' = a
                /\ token' = a
          /\ direction' = "back"
          /\ events' = <<>>
          /\ rooms' = [rooms EXCEPT !["old"] = ClientRooms("old")]
          /\ pc' = "fetch"
          /\ UNCHANGED <<room_names, cur, back_events, pages, timeline,
                         new_room, pos, posting, fault>>
    /\ UNCHANGED <<sessions, servers, requests>>

\* The loop left when a page holds nothing that is kept.
PageEndsFiltered(chunk) == SelectEvents(chunk, RetainedClasses) = <<>>

\* fetch_room_events: the test that leaves the loop, len(resp.chunk) == 0.
PageEnds(chunk) == Len(chunk) = 0

\* fetch_room_events: one request of the loop; on an empty page the loop
\* ends and get_room_events goes on with the other direction or returns.
\* An error response is logged and has no chunk: AttributeError.
FetchPage ==
    /\ pc = "fetch"
    /\ \/ Halt("crash", "RoomMessagesError")
       \/ /\ \E n \in 1..PageLimit :
               LET chunk == RoomMessagesChunk(CurRoom, token, direction, n)
               IN IF PageEnds(chunk)
                  THEN IF direction = "back"
                       THEN /\ back_events' = BackRun(events)
                            /\ events' = <<>>
                            /\ direction' = "front"
                            /\ token' = start_token
                            /\ pc' = "fetch"
                            /\ UNCHANGED <<timeline, start_token, pages>>
                       ELSE /\ timeline' = MergeRuns(back_events, events)
                            /\ events' = <<>>
                            /\ back_events' = <<>>
                            /\ direction' = "back"
                            /\ token' = 0
                            /\ start_token' = 0
                            /\ pc' = "resolve"
                            /\ UNCHANGED pages
                  ELSE /\ events' = ExtendEvents(events, chunk)
                       /\ token' = RoomMessagesEnd(CurRoom, token, direction, n)
                       /\ pages' = [pages EXCEPT ![direction] = @ + 1,
                                                 !.seen = @ + Len(chunk)]
                       /\ pc' = "fetch"
                       /\ UNCHANGED <<direction, back_events, timeline,
                                      start_token>>
          /\ UNCHANGED <<catalog, cur, new_room, pos, posting, fault>>
    /\ UNCHANGED <<sessions, servers, requests>>

\* Every room migrated, whatever was fetched.
HasEventsAlways(evs) == TRUE

\* A room migrated only when something of it will be posted.
HasEventsReplayable(evs) == SelectEvents(evs, PostedClasses) # <<>>

\* main: whether the room has anything to migrate.
HasEvents(evs) == Len(evs) > 0

\* The created room's name not recorded.
NamesNotRecorded(names, room_name) == names

\* create_room: room_names once the created room is recorded.
NamesAfterCreate(names, room_name) == Append(names, room_name)

\* main: the decision taken on the fetched timeline when no room has to be
\* created: skip the room, or look the destination room up by name.
Resolve ==
    /\ pc = "resolve"
    /\ IF HasEvents(timeline)
       THEN /\ src[CurRoom].display_name \in get_room_names("new")
            /\ new_room' = get_room("new", src[CurRoom].display_name)
            /\ pos' = 1
            /\ pc' = "send"
            /\ UNCHANGED <<cur, timeline>>
       ELSE /\ cur' = cur + 1
            /\ timeline' = <<>>
            /\ pc' = "loop"
            /\ UNCHANGED <<new_room, pos>>
    /\ pages' = NoPages
    /\ UNCHANGED <<sessions, servers, catalog, start_token, token, direction, events,
                   back_events, posting, fault, requests>>

\* The catalog left as it was before the sync.
RefreshRoomsStale(ids, display) == ids

\* create_room: self.rooms = self.client.rooms after the sync, the rooms of
\* the server, whose display names are display, in the order joined.
RefreshRooms(ids, display) == [i \in 1..Len(display) |-> i]

\* main calling create_room: room_create, sync, refresh of the catalog.  A
\* room_create error is fatal; a sync error ends the run as in login.  The
\* request is recorded with the id the server gave the room (0: none).
CreateRoom ==
    /\ pc = "resolve"
    /\ HasEvents(timeline)
    /\ src[CurRoom].display_name \notin get_room_names("new")
    /\ LET room_name == src[CurRoom].display_name
           request == [name |-> room_name, src |-> CurRoom, run |-> run,
                       ok |-> TRUE, room |-> Len(dst) + 1]
       IN \/ /\ creates' = Append(creates,
                                  [request EXCEPT !.ok = FALSE, !.room = 0])
             /\ Halt(sys_exit(TRUE, "send"), "RoomCreateError")
             /\ UNCHANGED dst
          \/ /\ creates' = Append(creates, request)
             /\ dst' = Append(dst, room_name)
             /\ \/ Halt("crash", "SyncError")
                \/ /\ rooms' = [rooms EXCEPT
                                  !["new"] = RefreshRooms(@, dst')]
                   /\ room_names' = [room_names EXCEPT
                                  !["new"] = NamesAfterCreate(@, room_name)]
                   /\ new_room' = get_room_in(room_names'["new"],
                                              rooms'["new"], dst', room_name)
                   /\ pos' = 1
                   /\ pages' = NoPages
                   /\ pc' = "send"
                   /\ UNCHANGED <<cur, start_token, token, direction, events,
                                  back_events, timeline, posting, fault>>
    /\ UNCHANGED <<sessions, src, run, downloads, uploads, sends>>

\* What the source server holds under the url of a media event.
Blobs == [ok : {TRUE}, body : Bodies, content_type : Mimes,
          filename : Filenames]

\* The length taken before the body is read.
body_size_unread(resp) == 0

\* post_event: the length handed to upload as filesize and put in the
\* message as info.size.
body_size(resp) == Len(resp.body)

\* post_event: the content of a media message, from the download response and
\* the content uri the upload returned.
MediaContent(resp, content_uri) ==
    [body |-> resp.filename,
     info |-> [size |-> body_size(resp), mimetype |-> resp.content_type],
     url |-> content_uri]

\* post_event: the content of any other message.
TextContent(event) == [body |-> event.idx]

\* Every event of the timeline handed to post_event.
IsPostedAny(event) == TRUE

\* send_events: whether the event is handed to post_event.
IsPosted(event) == isinstance(event.kind, PostedClasses)

\* send_events: an event of the timeline that is not posted.
SkipEvent ==
    /\ pc = "send"
    /\ pos <= Len(timeline)
    /\ ~IsPosted(timeline[pos])
    /\ pos' = pos + 1
    /\ UNCHANGED <<sessions, servers, pc, catalog, cur, fetching, timeline, new_room,
                   posting, fault, requests>>

\* post_event of a media event: download_mxc and the reading of its result.
\* A failed download yields b'', which has no body: AttributeError.
Download ==
    /\ pc = "send"
    /\ pos <= Len(timeline)
    /\ IsPosted(timeline[pos])
    /\ isinstance(timeline[pos].kind, MediaClasses)
    /\ \/ /\ Halt("crash", "DownloadError")
          /\ UNCHANGED downloads
       \/ /\ media' \in Blobs
          /\ downloads' = Append(downloads,
                 [src |-> CurRoom, idx |-> timeline[pos].idx, resp |-> media'])
          /\ pc' = "upload"
          /\ UNCHANGED <<catalog, cur, fetching, timeline, new_room, pos,
                         content, fault>>
    /\ UNCHANGED <<sessions, servers, creates, uploads, sends>>

\* post_event of a media event: the upload and the building of the content.
\* A failed upload answers with an UploadError, which has no content_uri:
\* AttributeError.
Upload ==
    /\ pc = "upload"
    /\ LET request == [src |-> CurRoom, idx |-> timeline[pos].idx,
                       data |-> media.body, filesize |-> body_size(media),
                       content_type |-> media.content_type,
                       filename |-> media.filename,
                       content_uri |-> Len(uploads) + 1]
       IN /\ uploads' = Append(uploads, request)
          /\ \/ Halt("crash", "UploadError")
             \/ /\ content' = MediaContent(media, request.content_uri)
                /\ pc' = "room_send"
                /\ UNCHANGED <<catalog, cur, fetching, timeline, new_room,
                               pos, media, fault>>
    /\ UNCHANGED <<sessions, servers, creates, downloads, sends>>

\* post_event: room_send with the content built, for a media event after its
\* upload and for any other posted event at once.  An exception is fatal; an
\* error response is returned, not raised, and post_event does not look at it.
RoomSend ==
    /\ \/ pc = "room_send"
       \/ /\ pc = "send"
          /\ pos <= Len(timeline)
          /\ IsPosted(timeline[pos])
          /\ ~isinstance(timeline[pos].kind, MediaClasses)
    /\ LET event == timeline[pos]
           built == IF pc = "room_send" THEN content ELSE TextContent(event)
           request == [src |-> CurRoom, idx |-> event.idx, kind |-> event.kind,
                       room |-> new_room, content |-> built,
                       msgtype |-> msgtype(event.kind), result |-> "ok"]
       IN IF new_room = 0
          THEN /\ Halt(sys_exit(TRUE, "send"), "exception")
               /\ UNCHANGED sends
          ELSE \/ /\ sends' = Append(sends, request)
                  /\ pos' = pos + 1
                  /\ pc' = "send"
                  /\ media' = NoMedia
                  /\ content' = NoContent
                  /\ UNCHANGED <<catalog, cur, fetching, timeline, new_room,
                                 fault>>
               \/ /\ sends' = Append(sends,
                                [request EXCEPT !.result = "RoomSendError"])
                  /\ fault' = "RoomSendError"
                  /\ pos' = pos + 1
                  /\ pc' = "send"
                  /\ media' = NoMedia
                  /\ content' = NoContent
                  /\ UNCHANGED <<catalog, cur, fetching, timeline, new_room>>
               \/ /\ sends' = Append(sends,
                                [request EXCEPT !.result = "exception"])
                  /\ Halt(sys_exit(TRUE, "send"), "exception")
    /\ UNCHANGED <<sessions, servers, creates, downloads, uploads>>

\* send_events returns; main goes on to the next room.
EndSend ==
    /\ pc = "send"
    /\ pos > Len(timeline)
    /\ cur' = cur + 1
    /\ timeline' = <<>>
    /\ new_room' = 0
    /\ pos' = 1
    /\ pc' = "loop"
    /\ UNCHANGED <<sessions, servers, catalog, fetching, posting, fault, requests>>

\* The servers that get a logout request from calls of logout() on the two
\* sessions: a call that is awaited runs its body, client.logout; a call
\* that is not awaited only creates a coroutine object.
LogoutRequests(awaited) == IF awaited THEN {"new", "old"} ELSE {}

\* main after the loop: new.logout() and old.logout() are called and not
\* awaited; main returns.
MainEnd ==
    /\ pc = "logout"
    /\ pc' = "done"
    /\ logouts' = logouts \cup LogoutRequests(FALSE)
    /\ UNCHANGED <<identity, servers, catalog, cur, fetching, timeline, new_room, pos,
                   posting, fault, requests>>

Terminated == pc \in {"done", "exit", "crash"}

\* The program is run again against the servers as the last run left them.
Rerun ==
    /\ Terminated
    /\ run + 1 \in Runs
    /\ run' = run + 1
    /\ pc' = "login_old"
    /\ rooms' = [s \in {"old", "new"} |-> <<>>]
    /\ room_names' = [s \in {"old", "new"} |-> <<>>]
    /\ cur' = 1
    /\ start_token' = 0
    /\ token' = 0
    /\ direction' = "back"
    /\ events' = <<>>
    /\ back_events' = <<>>
    /\ pages' = NoPages
    /\ timeline' = <<>>
    /\ new_room' = 0
    /\ pos' = 1
    /\ media' = NoMedia
    /\ content' = NoContent
    /\ fault' = "none"
    /\ downloads' = <<>>
    /\ uploads' = <<>>
    /\ sends' = <<>>
    /\ device_cnt' = ClassAttrs
    /\ device' = NoSessions
    /\ logins' = <<>>
    /\ di_used' = 0
    /\ logouts' = {}
    /\ UNCHANGED <<src, dst, creates, creds>>

Step ==
    \/ Login("old")
    \/ Login("new")
    \/ StartLoop
    \/ NextRoom
    \/ GetAnchor
    \/ FetchPage
    \/ Resolve
    \/ CreateRoom
    \/ SkipEvent
    \/ Download
    \/ Upload
    \/ RoomSend
    \/ EndSend
    \/ MainEnd

Next == Step \/ Rerun

\* The program run and run again against servers of several rooms.
Spec == Init /\ [][Next]_vars

\* The program run once against a source server of one room.
SpecOnce == InitOnce /\ [][Step]_vars

\* One source room whose history mixes events that are not retained,
\* retained but not posted, and posted, and an empty destination server.
InitFetch ==
    /\ src \in [1..1 -> [display_name : {"a"},
                         history : SeqsUpTo({"RoomMemberEvent",
                                             "RedactedEvent",
                                             "RoomMessageMedia"},
                                            MaxHist - 1)]]
    /\ dst = <<>>
    /\ run = 1
    /\ creates = <<>>
    /\ creds = BothGiven
    /\ ProcessStart

\* The program run once, the source server answering every room_messages
\* request that fetch_room_events awaits.
SpecFetch == InitFetch /\ [][Step]_vars /\ WF_vars(FetchPage)

\* The room the account joins on the source server during a run.
JoinedRoom == [display_name |-> "b", history |-> <<"RoomMessageText">>]

\* The source server while the program runs: the account joins a further
\* room, from another device.
JoinRoom ==
    /\ ~Terminated
    /\ Len(src) < NumRooms
    /\ src' = Append(src, JoinedRoom)
    /\ UNCHANGED <<dst, run, pc, catalog, cur, fetching, timeline, new_room,
                   pos, posting, fault, requests, sessions>>

\* One source room of one event, an empty destination server, and any
\* credentials.
InitLive ==
    /\ src \in [1..1 -> [display_name : {"a"},
                         history : {<<"RoomMessageText">>,
                                    <<"RoomMessageMedia">>,
                                    <<"RedactedEvent">>,
                                    <<"RoomMemberEvent">>}]]
    /\ dst = <<>>
    /\ run = 1
    /\ creates = <<>>
    /\ creds \in Credentials
    /\ ProcessStart

NextLive == Step \/ JoinRoom

\* The program run once against a source server that does not stand still.
SpecLive == InitLive /\ [][NextLive]_vars

\* ------------------------------------------------------------ properties
\* The history of the room the loop of main is at.
CurHistory == src[CurRoom].history

\* The events of source room r that fetch_room_events keeps, oldest first.
RetainedOf(r) ==
    SelectEvents([i \in 1..Len(src[r].history) |-> EventAt(r, i)],
                 RetainedClasses)

\* C1: two events of one source room that are both posted are posted in the
\* order of the source history: the earlier room_send carries the earlier
\* event.
C1_ReplayPreservesOrder ==
    \A i, j \in 1..Len(sends) :
        (i < j /\ sends[i].src = sends[j].src) => sends[i].idx < sends[j].idx

\* A history of four text events, fetched around the anchor and all posted,
\* the run finished.
C1_Witness ==
    /\ pc = "done"
    /\ Len(sends) >= 4
    /\ \A i \in 1..Len(sends) : sends[i].idx = i /\ sends[i].result = "ok"

\* C2: when get_room_events returns, the timeline holds events of the room's
\* history only, in strictly increasing position (so none twice), and every
\* text, media, redacted and encrypted-media event of the history is in it.
C2_PaginationMerge ==
    pc = "resolve" =>
        /\ \A i, j \in 1..Len(timeline) :
               i < j => timeline[i].idx < timeline[j].idx
        /\ \A i \in 1..Len(timeline) :
               /\ timeline[i].idx \in 1..Len(CurHistory)
               /\ timeline[i].kind = CurHistory[timeline[i].idx]
        /\ \A k \in 1..Len(CurHistory) :
               CurHistory[k] \in {"RoomMessageText", "RoomMessageMedia",
                                  "RedactedEvent", "RoomEncryptedMedia"}
               => \E i \in 1..Len(timeline) : timeline[i].idx = k

\* A timeline of four events merged from two backward and two forward pages.
C2_Witness ==
    /\ pc = "resolve"
    /\ pages.back >= 2
    /\ pages.front >= 2
    /\ Len(timeline) >= 4

\* C3: no two room_create requests of one run carry the same name, and no
\* run issues a room_create for a name an earlier run created.
C3_OneCreatePerName ==
    /\ \A i, j \in 1..Len(creates) :
           (i # j /\ creates[i].name = creates[j].name)
           => creates[i].run # creates[j].run
    /\ \A i, j \in 1..Len(creates) :
           (creates[i].ok /\ creates[i].run < creates[j].run)
           => creates[i].name # creates[j].name

\* Two source rooms of one name, both replayed by a second run that found
\* the room the first run created.
C3_Witness ==
    /\ run = 2
    /\ pc = "done"
    /\ Len(src) = 2
    /\ src[1].display_name = src[2].display_name
    /\ Len(creates) = 1
    /\ creates[1].run = 1
    /\ \E i, j \in 1..Len(sends) : sends[i].src = 1 /\ sends[j].src = 2

\* C4: a room_send that fails, by an exception or by an error response, is
\* the last request of the run: the run has exited and nothing is sent after
\* it.
C4_SendFailureFatal ==
    \A i \in 1..Len(sends) :
        sends[i].result # "ok" => (i = Len(sends) /\ pc = "exit")

\* C5: a room_messages error does not end the run: the page counts as empty
\* and the run goes on.
C5_FetchErrorAbsorbed ==
    fault = "RoomMessagesError" => pc # "crash"

\* C6: a failed media download does not end the run: post_event goes on
\* with an empty payload.
C6_DownloadFailureAbsorbed ==
    fault = "DownloadError" => pc # "crash"

\* C7, as stated: every event of the fetched timeline is text, media,
\* redacted or encrypted media; a notice or an emote never is in it.
C7_OnlyNamedKinds ==
    \A i \in 1..Len(timeline) :
        timeline[i].kind \in {"RoomMessageText", "RoomMessageMedia",
                              "RedactedEvent", "RoomEncryptedMedia"}

\* C7, amended: every event of the fetched timeline is a formatted message
\* (text, notice, emote), media, redacted or encrypted media; an event that
\* is none of these never is in it.
C7_OnlyRetainedClasses ==
    \A i \in 1..Len(timeline) :
        timeline[i].kind \in {"RoomMessageText", "RoomMessageNotice",
                              "RoomMessageMedia", "RedactedEvent",
                              "RoomEncryptedMedia"}

\* A history with a membership event, a notice and a text, fetched: the
\* notice is in the timeline.
C7_Witness ==
    /\ pc = "resolve"
    /\ \E k \in 1..Len(CurHistory) : CurHistory[k] = "RoomMemberEvent"
    /\ \E k \in 1..Len(CurHistory) : CurHistory[k] = "RoomMessageText"
    /\ \E i \in 1..Len(timeline) : timeline[i].kind = "RoomMessageNotice"

\* C8: every redacted event of the history is in the timeline
\* get_room_events returns, and every room_send, download and upload is for
\* a text, media or encrypted-media event, downloads and uploads for media
\* only.
C8_RedactedNeverReplayed ==
    /\ pc = "resolve" =>
           \A k \in 1..Len(CurHistory) :
               CurHistory[k] = "RedactedEvent"
               => \E i \in 1..Len(timeline) : timeline[i].idx = k
    /\ \A i \in 1..Len(sends) :
           sends[i].kind \in {"RoomMessageText", "RoomMessageMedia",
                              "RoomEncryptedMedia"}
    /\ \A i \in 1..Len(downloads) :
           src[downloads[i].src].history[downloads[i].idx]
               \in {"RoomMessageMedia", "RoomEncryptedMedia"}
    /\ \A i \in 1..Len(uploads) :
           src[uploads[i].src].history[uploads[i].idx]
               \in {"RoomMessageMedia", "RoomEncryptedMedia"}

\* send_events has passed a redacted event of the timeline and has posted
\* another event.
C8_Witness ==
    /\ pc = "send"
    /\ Len(sends) >= 1
    /\ \E i \in 1..Len(timeline) :
           i < pos /\ timeline[i].kind = "RedactedEvent"

\* C9, as stated: for a source room with no retained event, no room_create
\* carries its display name and no room_send goes to a room of that name.
C9_NothingForEmptyRoomName ==
    \A r \in 1..Len(src) :
        RetainedOf(r) = <<>> =>
            /\ \A i \in 1..Len(creates) :
                   creates[i].name # src[r].display_name
            /\ \A i \in 1..Len(sends) :
                   dst[sends[i].room] # src[r].display_name

\* C9, amended: for a source room with no retained event, no room_create
\* and no room_send is issued for that room.
C9_NothingForEmptyRoom ==
    \A r \in 1..Len(src) :
        RetainedOf(r) = <<>> =>
            /\ \A i \in 1..Len(creates) : creates[i].src # r
            /\ \A i \in 1..Len(sends) : sends[i].src # r

\* A run that skipped a first room with nothing retained and created and
\* filled a room for the second.
C9_Witness ==
    /\ pc = "done"
    /\ Len(src) = 2
    /\ RetainedOf(1) = <<>>
    /\ \E i \in 1..Len(creates) : creates[i].src = 2 /\ creates[i].run = run
    /\ \E i \in 1..Len(sends) : sends[i].src = 2

\* C10: every upload carries the downloaded payload and its length as
\* filesize, and every media message posted carries the content uri, the
\* mimetype and the filename of its upload and the downloaded length as size.
C10_MediaFidelity ==
    /\ Len(uploads) <= Len(downloads)
    /\ \A k \in 1..Len(uploads) :
           /\ uploads[k].src = downloads[k].src
           /\ uploads[k].idx = downloads[k].idx
           /\ uploads[k].data = downloads[k].resp.body
           /\ uploads[k].filesize = Len(downloads[k].resp.body)
    /\ \A i \in 1..Len(sends) :
           sends[i].kind \in {"RoomMessageMedia", "RoomEncryptedMedia"} =>
               \E k \in 1..Len(uploads) :
                   /\ uploads[k].src = sends[i].src
                   /\ uploads[k].idx = sends[i].idx
                   /\ sends[i].content.url = uploads[k].content_uri
                   /\ sends[i].content.info.mimetype = uploads[k].content_type
                   /\ sends[i].content.body = uploads[k].filename
                   /\ sends[i].content.info.size
                          = Len(downloads[k].resp.body)

\* A media message of two bytes, downloaded, uploaded and posted.
C10_Witness ==
    \E i \in 1..Len(sends) :
        /\ sends[i].kind = "RoomMessageMedia"
        /\ sends[i].result = "ok"
        /\ sends[i].content.info.size = 2

\* C11: the source session and the destination session of a run have
\* different device identifiers.
C11_DeviceIdsDiffer ==
    {"old", "new"} \subseteq DOMAIN device => device["old"] # device["new"]

\* C12: a run that logged into both servers and processed every room without
\* a fatal error has sent a logout request to the destination server and to
\* the source server when it ends.
C12_LogoutsSent ==
    pc = "done" => logouts = {"old", "new"}

\* C13: a sync error answered to Matrix_Server.sync, after login or after a
\* room creation, does not end the run.
C13_SyncFailureNonFatal ==
    fault = "SyncError" => pc # "crash"

\* The positions in the history of source room r of the events send_events
\* posts, oldest first: the replayable timeline of r.
ReplayableOf(r) ==
    LET posted == SelectEvents(RetainedOf(r), PostedClasses)
    IN [i \in 1..Len(posted) |-> posted[i].idx]

\* The positions of the events of source room r that this run has posted:
\* the room_send requests for r that the destination accepted, in order.
PostedOf(r) ==
    LET accepted == SelectSeq(sends,
                              LAMBDA m : m.src = r /\ m.result = "ok")
    IN [i \in 1..Len(accepted) |-> accepted[i].idx]

IsPrefix(a, b) == Len(a) <= Len(b) /\ SubSeq(b, 1, Len(a)) = a

\* C14: in every state of a run the messages posted for a source room are a
\* prefix of its replayable timeline, every room before the one main is at
\* has its whole replayable timeline posted, and no room after it has a
\* room_create or a room_send of this run.
C14_PartialFailureShape ==
    /\ \A r \in 1..Len(src) : IsPrefix(PostedOf(r), ReplayableOf(r))
    /\ \A k \in 1..Len(rooms["old"]) :
           k < cur => PostedOf(rooms["old"][k]) = ReplayableOf(rooms["old"][k])
    /\ \A k \in 1..Len(rooms["old"]) :
           k > cur =>
               /\ \A i \in 1..Len(creates) :
                      creates[i].run = run => creates[i].src # rooms["old"][k]
               /\ \A i \in 1..Len(sends) : sends[i].src # rooms["old"][k]

\* C15: get_room_events, fetch_room_events, send_events and post_event
\* leave the room catalogs of both sessions unchanged.
C15_CatalogNeverRefreshes ==
    [][(pc \in {"sync", "fetch", "send", "upload", "room_send"})
          => (rooms' = rooms)]_vars

\* C16: when room_create has succeeded and create_room has returned, the
\* room main holds is the room the server created, it is in the destination
\* catalog under the requested name, and every message of that source room
\* is posted into it.
C16_CreateReturnsRoom ==
    \A i \in 1..Len(creates) :
        (creates[i].run = run /\ creates[i].ok) =>
            /\ (pc \in {"send", "upload", "room_send"}
                    /\ CurRoom = creates[i].src) =>
                   /\ new_room # 0
                   /\ new_room = creates[i].room
                   /\ new_room \in Range(rooms["new"])
                   /\ dst[new_room] = creates[i].name
            /\ \A j \in 1..Len(sends) :
                   sends[j].src = creates[i].src
                   => sends[j].room = creates[i].room

\* A destination server that held a room already; create_room has returned
\* the second room and a message has been posted into it.
C16_Witness ==
    /\ pc = "send"
    /\ new_room = 2
    /\ \E i \in 1..Len(creates) :
           /\ creates[i].run = run
           /\ creates[i].ok
           /\ creates[i].src = CurRoom
           /\ creates[i].room = new_room
    /\ \E j \in 1..Len(sends) :
           sends[j].src = CurRoom /\ sends[j].room = new_room

\* C17: a room_create that returned an error is the last room_create of the
\* run; the run has exited at that source room, nothing is posted for it and
\* every request of the run is for a room before it.
C17_CreateFailureFatal ==
    \A i \in 1..Len(creates) :
        (creates[i].run = run /\ ~creates[i].ok) =>
            /\ pc = "exit"
            /\ i = Len(creates)
            /\ rooms["old"][cur] = creates[i].src
            /\ \A j \in 1..Len(sends) :
                   \E k \in 1..(cur - 1) : rooms["old"][k] = sends[j].src
            /\ \A j \in 1..Len(downloads) :
                   \E k \in 1..(cur - 1) : rooms["old"][k] = downloads[j].src

\* A first room migrated, then the creation of the room for the second
\* source room refused.
C17_Witness ==
    /\ pc = "exit"
    /\ fault = "RoomCreateError"
    /\ cur = 2
    /\ Len(creates) >= 1
    /\ ~creates[Len(creates)].ok
    /\ creates[Len(creates)].run = run
    /\ \E j \in 1..Len(sends) : sends[j].src = rooms["old"][1]

\* C18: every authentication attempt uses the password when the session's
\* password is not empty and the token otherwise, and every session that
\* was logged in made exactly one attempt.
C18_CredentialPrecedence ==
    /\ \A i \in 1..Len(logins) :
           logins[i].auth = (IF creds[logins[i].server].password # <<>>
                             THEN "password" ELSE "token")
    /\ \A i, j \in 1..Len(logins) :
           logins[i].server = logins[j].server => i = j
    /\ \A s \in DOMAIN device : \E i \in 1..Len(logins) : logins[i].server = s

\* A run to its end whose source session had a password and a token and
\* logged in with the password, and whose destination session had a token
\* only and logged in with it.
C18_Witness ==
    /\ pc = "done"
    /\ creds["old"].password # <<>>
    /\ creds["old"].token # <<>>
    /\ creds["new"].password = <<>>
    /\ creds["new"].token # <<>>
    /\ Len(logins) = 2
    /\ logins[1] = [server |-> "old", auth |-> "password"]
    /\ logins[2] = [server |-> "new", auth |-> "token"]

\* While fetch_room_events runs, the pages fetched in the direction under
\* way cover the history from the anchor to the token without a gap (each
\* request starts at the end token of the page before), and when
\* get_room_events has returned the pages of both directions held every
\* event of the history: neither direction stopped before an empty page.
FetchCoversHistory ==
    /\ (pc = "fetch" /\ direction = "back")
           => pages.seen = start_token - token
    /\ (pc = "fetch" /\ direction = "front") => pages.seen = token
    /\ pc = "resolve" => pages.seen = Len(CurHistory)

\* C19: fetch_room_events leaves its loop exactly on a page of zero events,
\* requesting each page from the end token of the page before, so that the
\* pages cover the whole history whatever kinds of events they hold; and
\* against a source server that answers every request the loop ends in both
\* directions.
C19_PaginationStops ==
    /\ []FetchCoversHistory
    /\ (pc = "fetch") ~> (pc # "fetch")

\* A history of three events fetched backward in three pages, the middle
\* page holding a membership event only, and the event before it fetched
\* and kept all the same.
C19_Witness ==
    /\ pc = "resolve"
    /\ Len(CurHistory) = 3
    /\ CurHistory[2] = "RoomMemberEvent"
    /\ pages.back = 3
    /\ pages.seen = 3
    /\ Len(timeline) = 2

\* The display names of the rooms the destination server held when this run
\* logged in: its rooms but those this run has created.
NamesAtLogin ==
    LET created == {creates[i].room : i \in {j \in 1..Len(creates) :
                                                creates[j].run = run}}
    IN {dst[id] : id \in (1..Len(dst)) \ created}

\* C20: a room_create is only issued for a source room whose fetched
\* timeline is not empty; for every source room the run is done with whose
\* timeline is not empty, the destination catalog knows the name, and a room
\* of that name was created in this run exactly when the destination did
\* not hold one at login; and when nothing of that timeline is replayable,
\* no message of the room is posted.
C20_CreationByRetained ==
    /\ \A i \in 1..Len(creates) :
           creates[i].run = run => RetainedOf(creates[i].src) # <<>>
    /\ \A k \in 1..Len(rooms["old"]) :
           (k < cur /\ RetainedOf(rooms["old"][k]) # <<>>) =>
               LET r == rooms["old"][k]
                   name == src[r].display_name
               IN /\ name \in get_room_names("new")
                  /\ name \notin NamesAtLogin
                         <=> \E i \in 1..Len(creates) :
                                 /\ creates[i].run = run
                                 /\ creates[i].ok
                                 /\ creates[i].name = name
                  /\ ReplayableOf(r) = <<>>
                         => \A j \in 1..Len(sends) : sends[j].src # r

\* A run to its end that created a room for a source room whose only event
\* is redacted and posted nothing into it.
C20_Witness ==
    /\ pc = "done"
    /\ \E r \in 1..Len(src) :
           /\ src[r].history = <<"RedactedEvent">>
           /\ \E i \in 1..Len(creates) :
                  /\ creates[i].run = run
                  /\ creates[i].ok
                  /\ creates[i].src = r
           /\ \A j \in 1..Len(sends) : dst[sends[j].room] # src[r].display_name

====
